---- MODULE Spec2Model ----
(***************************************************************************)
(* Supervisor-side node state tracking and sync scheduling.                *)
(*                                                                         *)
(* Five programs are modelled, selected by prog:                           *)
(*   "rsync"   one call of rsync_data of src/transfer_with_retry.py        *)
(*   "bounded" main of src/transfer_with_retry.py                          *)
(*   "daily"   main of src/beam/BEAM_supervisor_package/                   *)
(*             transfer_with_retry.py                                      *)
(*   "check"   main of src/beam/BEAM_supervisor_package/                   *)
(*             supervisor_ping_check.py                                    *)
(*   "daemon"  main of src/queue_shipped_data.py                           *)
(* External tools (ping, rsync, the heartbeat files, the clock) are the    *)
(* environment: every invocation draws its result from a small set.        *)
(***************************************************************************)
EXTENDS Integers, Sequences, FiniteSets, TLC

VARIABLES
    prog,          \* which program runs
    pc,            \* position of the program
    cfg,           \* the loaded configuration (supervisor_config.json)
    remaining,     \* bounded: nodes not yet synced in this run
    cycle,         \* bounded: the for-loop variable; daemon: unused
    todo,          \* bounded: nodes of list(remaining) not yet examined
    candidates,    \* bounded: the candidates dict, in insertion order
    sorted_nodes,  \* bounded: the sorted candidate list
    k,             \* index of the loop over sorted_nodes / over the nodes
    cur,           \* node whose transfer is in progress
    attempt,       \* rsync_data: attempt counter
    delay,         \* rsync_data: current backoff delay
    success,       \* result of the last transfer
    events,        \* attempts and sleeps of the current rsync_data call
    state,         \* BEAM scripts: the state dict (supervisor_state.json)
    nodes,         \* daemon: the Node objects
    file,          \* the persisted state file
    now,           \* wall clock read by datetime.now()
    stale,         \* history: nodes gated out by the heartbeat this cycle
    xfers,         \* history: transfers invoked in this cycle / pass
    probes,        \* history: probes of the registry scripts in this pass
    failed,        \* history: nodes whose pull failed in this cycle / pass
    attempts,      \* history: copy attempts per node in this run
    synced,        \* history: nodes whose pull succeeded in this run
    ready,         \* history: nodes with a fresh heartbeat and an answered
                   \* probe at this cycle's candidate building
    pulled,        \* history: daemon nodes a transfer was invoked for
    pc2,           \* overlap: position of the concurrent daily run
    state2,        \* overlap: the state dict of the concurrent daily run
    k2,            \* overlap: loop index of the concurrent daily run
    base2,         \* history: what the concurrent daily run loaded
    file0,         \* history: the state file when the health check loaded it
    noavg          \* history: nodes whose probe in this cycle / pass reached
                   \* them but gave no parsable average

\* the variables of the concurrent daily run
overlapVars == << pc2, state2, k2, base2, file0 >>

vars == << prog, pc, cfg, remaining, cycle, todo, candidates, sorted_nodes, k,
           cur, attempt, delay, success, events, state, nodes, file, now,
           stale, xfers, probes, failed, attempts, synced, ready, pulled,
           pc2, state2, k2, base2, file0, noavg >>

-----------------------------------------------------------------------------
(* Bounds of the model *)

\* largest max_retries tried for one rsync_data call
MaxRetries == 4
\* largest max_retries tried inside the schedulers
MaxRetriesSched == 1
\* largest configured max_cycles
MaxCyclesCfg == 2
\* last value of the clock
MaxNow == 3

-----------------------------------------------------------------------------
(* Program constants *)

DefaultPriority == 999
DefaultMaxCycles == 3
DefaultHeartbeatMaxAge == 120

\* nodes of the bounded scheduler's configuration
Nodes == {"A", "B", "C"}
\* nodes of the registry scripts, in configuration order
NodeOrder == << "A", "B" >>
RegNodes == {NodeOrder[j] : j \in 1..Len(NodeOrder)}

NoNode == "-"
\* ping_latency returning None
None == -1
\* a ping output without a parsable average
NoAvg == -2
\* a ping output whose average line has no parsable number at the expected place
BadAvg == -3
\* ping_latency left by an exception it does not catch
Raised == -4
Latencies == {1, 10, 50}

-----------------------------------------------------------------------------
(* Pure helpers *)

\* int(delay * backoff_factor) for a factor num/den and a delay >= 0
BackoffStep(d, bf) == (d * bf.num) \div bf.den

\* node_info.get("priority", 999)
PriorityOf(info) == IF info.has_priority THEN info.priority ELSE DefaultPriority

MaxCyclesOfZeroDefault(c) ==
    IF c.has_max_cycles /\ c.max_cycles # 0 THEN c.max_cycles ELSE DefaultMaxCycles

\* int(cfg.get("max_cycles", 3))
MaxCyclesOf(c) == IF c.has_max_cycles THEN c.max_cycles ELSE DefaultMaxCycles

\* outputs of the external ping: return code and the parsed avg field
PingOutputs ==
    {[rc |-> 1, avg |-> NoAvg]}
    \cup {[rc |-> 0, avg |-> a] : a \in Latencies \cup {NoAvg, BadAvg}}

\* ping_latency of src/transfer_with_retry.py
PingLatency(out) ==
    IF out.rc # 0 THEN None
    ELSE IF out.avg = NoAvg THEN None
    ELSE IF out.avg = BadAvg THEN None
    ELSE out.avg

\* heartbeat files: present or not, and their age in seconds
HeartbeatAges == {60, 120, 121}
Heartbeats == {[exists |-> e, age |-> a] : e \in BOOLEAN, a \in HeartbeatAges}

\* history: the ping returned 0 and printed an average
ProbeAnswered(out) == out.rc = 0 /\ out.avg \in Latencies
\* history: the ping returned 0 but no average could be read from its output
NoLatencyParsed(out) == out.rc = 0 /\ out.avg \in {NoAvg, BadAvg}

HasFreshHeartbeatNoAge(hb, max_age) == hb.exists

HasFreshHeartbeatStrict(hb, max_age) == hb.exists /\ hb.age < max_age

\* history: the marker is missing or older than max_age
HeartbeatIsStale(hb, max_age) == ~hb.exists \/ hb.age > max_age

\* has_fresh_heartbeat
HasFreshHeartbeat(hb, max_age) ==
    IF ~hb.exists THEN FALSE
    ELSE IF hb.age > max_age THEN FALSE
    ELSE TRUE

\* the sort key (item[1][0], item[1][1]) compared as Python compares tuples
KeyLessLatencyOnly(a, b) == a.latency < b.latency

KeyLess(a, b) ==
    \/ a.priority < b.priority
    \/ a.priority = b.priority /\ a.latency < b.latency

\* x placed behind every element that does not sort after it
InsertSorted(x, s) ==
    LET n == Cardinality({j \in 1..Len(s) : ~KeyLess(x, s[j])})
    IN  SubSeq(s, 1, n) \o << x >> \o SubSeq(s, n + 1, Len(s))

RECURSIVE SortedItems(_)
\* sorted(candidates.items(), key=...): a stable sort
SortedItems(s) ==
    IF s = << >> THEN << >>
    ELSE InsertSorted(s[Len(s)], SortedItems(SubSeq(s, 1, Len(s) - 1)))

Names(s) == [j \in 1..Len(s) |-> s[j].name]
SeqSet(s) == {s[j] : j \in 1..Len(s)}

-----------------------------------------------------------------------------
(* Configurations *)

BackoffFactors == {[num |-> 2, den |-> 1], [num |-> 3, den |-> 2], [num |-> 1, den |-> 2]}
RetryDelays == {3, 5}

\* priorities of the bounded scheduler's nodes; has_priority FALSE is a
\* node_info without the "priority" key
Prio(p) == [has_priority |-> TRUE, priority |-> p]
NoPrio == [has_priority |-> FALSE, priority |-> 0]
NodeCfgs ==
    { [A |-> Prio(1), B |-> Prio(1), C |-> Prio(2)],
      [A |-> NoPrio, B |-> Prio(1000), C |-> Prio(1)] }

MkCfg(mr, rd, bf, hmc, mc, nc) ==
    [max_retries |-> mr, retry_delay |-> rd, backoff_factor |-> bf,
     has_max_cycles |-> hmc, max_cycles |-> mc,
     heartbeat_max_age |-> DefaultHeartbeatMaxAge, nodes |-> nc]

\* configurations of one rsync_data call
RsyncCfgs ==
    {MkCfg(mr, rd, bf, TRUE, 1, [A |-> Prio(1), B |-> Prio(1), C |-> Prio(2)]) :
        mr \in (0 - 1)..MaxRetries, rd \in RetryDelays, bf \in BackoffFactors}

\* configurations of the bounded scheduler
BoundedCfgs ==
    {MkCfg(mr, 5, [num |-> 2, den |-> 1], hmc, mc, nc) :
        mr \in 0..MaxRetriesSched, hmc \in {TRUE}, mc \in 0..MaxCyclesCfg, nc \in NodeCfgs}
    \cup
    {MkCfg(mr, 5, [num |-> 2, den |-> 1], FALSE, 0, nc) :
        mr \in 0..MaxRetriesSched, nc \in NodeCfgs}

\* configurations of the BEAM scripts (every key is read without a default)
BeamCfgs ==
    {MkCfg(mr, 5, [num |-> 2, den |-> 1], TRUE, 0, [A |-> NoPrio, B |-> NoPrio, C |-> NoPrio]) :
        mr \in 0..MaxRetriesSched}

NoCfg == MkCfg(0, 0, [num |-> 1, den |-> 1], TRUE, 0, [A |-> NoPrio, B |-> NoPrio, C |-> NoPrio])

-----------------------------------------------------------------------------
(* State shared by the programs *)

\* timestamps found in a state file: 0 is null, the others are past times
PastTimes == {0, 1}
\* the clock when a script starts: later than every persisted timestamp
StartTime == 1 + Cardinality(PastTimes \ {0})

\* one record of supervisor_state.json
StateRecords ==
    [node_alive : BOOLEAN, fail_to_request_data : BOOLEAN,
     last_online_time : PastTimes, last_offline_time : PastTimes,
     last_fail_time : PastTimes]

\* one Node object of the daemon
NodeRecords == [transfer_fail : BOOLEAN, state : {"alive", "dead", "unknown"}]

\* one entry of node_states.json: "transfer_fail" and "state" may be missing
NodeStates == {"alive", "dead", "unknown"}
FileNodeRecords ==
    {[has_transfer_fail |-> TRUE, transfer_fail |-> tf, has_state |-> TRUE, state |-> st] :
        tf \in BOOLEAN, st \in NodeStates}
    \cup {[has_transfer_fail |-> FALSE, transfer_fail |-> FALSE, has_state |-> TRUE, state |-> st] :
        st \in NodeStates}
    \cup {[has_transfer_fail |-> TRUE, transfer_fail |-> tf, has_state |-> FALSE, state |-> "unknown"] :
        tf \in BOOLEAN}
    \cup {[has_transfer_fail |-> FALSE, transfer_fail |-> FALSE, has_state |-> FALSE, state |-> "unknown"]}

\* info.get("transfer_fail", False), info.get("state", "unknown")
LoadNode(info) ==
    [transfer_fail |-> IF info.has_transfer_fail THEN info.transfer_fail ELSE FALSE,
     state |-> IF info.has_state THEN info.state ELSE "unknown"]

\* load_nodes: one Node per entry of the file
LoadNodes(f) == [n \in DOMAIN f |-> LoadNode(f[n])]

\* Node.to_dict
ToDict(node) ==
    [has_transfer_fail |-> TRUE, transfer_fail |-> node.transfer_fail,
     has_state |-> TRUE, state |-> node.state]

SaveNodesDropFlag(ns) ==
    [n \in DOMAIN ns |-> [ToDict(ns[n]) EXCEPT !.transfer_fail = FALSE]]

\* save_nodes: the data written by json.dump
SaveNodes(ns) == [n \in DOMAIN ns |-> ToDict(ns[n])]

\* load_json of the BEAM scripts: the dict found in the file
LoadJson(f) == f

\* a state file just opened with mode "w": nothing is in it yet
EmptyFile == << >>

\* state files of the BEAM scripts: the record of a configured node may be
\* missing, but the file is not empty
StateFiles ==
    UNION {[S -> StateRecords] : S \in (SUBSET RegNodes) \ {{}}}

NoState == [n \in RegNodes |->
    [node_alive |-> FALSE, fail_to_request_data |-> FALSE,
     last_online_time |-> 0, last_offline_time |-> 0, last_fail_time |-> 0]]
NoNodes == [n \in RegNodes |-> [transfer_fail |-> FALSE, state |-> "unknown"]]

\* the parts of the state a program does not use
IdleBounded ==
    /\ remaining = {} /\ cycle = 0 /\ todo = {} /\ candidates = << >>
    /\ sorted_nodes = << >> /\ stale = {}
IdleRsync ==
    /\ cur = NoNode /\ attempt = 0 /\ delay = 0 /\ success = FALSE /\ events = << >>
IdleRegistry ==
    /\ state = NoState /\ nodes = NoNodes /\ file = EmptyFile /\ now = StartTime
IdleOverlap ==
    /\ pc2 = "off" /\ state2 = << >> /\ k2 = 0 /\ base2 = << >> /\ file0 = << >>
IdleHistory ==
    /\ synced = {} /\ ready = {} /\ pulled = {} /\ noavg = {}

\* history: the pull of node n returned (ok) after the attempts in evs
FailedAfter(f, n, ok, evs) == IF ~ok /\ evs # << >> THEN f \cup {n} ELSE f
\* history: the pull of node n returned True
SyncedAfter(sy, n, ok) == IF ok THEN sy \cup {n} ELSE sy

AttemptEvent(a, ok) == [kind |-> "attempt", val |-> a, ok |-> ok]
SleepEvent(d) == [kind |-> "sleep", val |-> d, ok |-> FALSE]

-----------------------------------------------------------------------------
(* rsync_data of src/transfer_with_retry.py *)

InitRsync ==
    /\ IdleOverlap /\ IdleHistory
    /\ prog = "rsync" /\ pc = "rsync"
    /\ cfg \in RsyncCfgs
    /\ IdleBounded /\ IdleRegistry
    /\ k = 0 /\ xfers = << >> /\ probes = << >> /\ failed = {}
    /\ cur = "A" /\ attempt = 1 /\ delay = cfg.retry_delay
    /\ success = FALSE /\ events = << >>
    /\ attempts = [n \in Nodes |-> 0]

\* while attempt <= max_retries
RetryLoopCondOffByOne(a, max_retries) == a <= max_retries + 1

RetryLoopCond(a, max_retries) == a <= max_retries

\* if attempt < max_retries: sleep and back off
SleepCondAlways(a, max_retries) == TRUE

SleepCond(a, max_retries) == a < max_retries

\* one iteration of the retry loop: the copy, and on failure the probe,
\* the sleep and the new delay
RsyncAttempt ==
    /\ UNCHANGED overlapVars
    /\ UNCHANGED noavg
    /\ UNCHANGED << synced, ready, pulled >>
    /\ UNCHANGED failed
    /\ UNCHANGED probes
    /\ prog \in {"rsync", "bounded"} /\ pc = "rsync"
    /\ RetryLoopCond(attempt, cfg.max_retries)
    /\ attempts' = [attempts EXCEPT ![cur] = @ + 1]
    /\ \E ok \in BOOLEAN :
        IF ok
        THEN /\ events' = Append(events, AttemptEvent(attempt, TRUE))
             /\ success' = TRUE
             /\ pc' = "returned"
             /\ UNCHANGED << attempt, delay >>
        ELSE /\ \E out \in PingOutputs : PingLatency(out) \in Latencies \cup {None}
             /\ IF SleepCond(attempt, cfg.max_retries)
                THEN /\ events' = events \o << AttemptEvent(attempt, FALSE), SleepEvent(delay) >>
                     /\ delay' = BackoffStep(delay, cfg.backoff_factor)
                ELSE /\ events' = Append(events, AttemptEvent(attempt, FALSE))
                     /\ delay' = delay
             /\ attempt' = attempt + 1
             /\ UNCHANGED << success, pc >>
    /\ UNCHANGED << prog, cfg, remaining, cycle, todo, candidates, sorted_nodes, k,
                    cur, state, nodes, file, now, stale, xfers >>

\* the loop ends without a success: return False
RsyncExhausted ==
    /\ UNCHANGED overlapVars
    /\ UNCHANGED noavg
    /\ UNCHANGED << synced, ready, pulled >>
    /\ UNCHANGED failed
    /\ UNCHANGED probes
    /\ prog \in {"rsync", "bounded"} /\ pc = "rsync"
    /\ ~RetryLoopCond(attempt, cfg.max_retries)
    /\ success' = FALSE
    /\ pc' = "returned"
    /\ UNCHANGED << prog, cfg, remaining, cycle, todo, candidates, sorted_nodes, k,
                    cur, attempt, delay, events, state, nodes, file, now, stale,
                    xfers, attempts >>

NextRsync == RsyncAttempt \/ RsyncExhausted

SpecRsync == InitRsync /\ [][NextRsync]_vars

-----------------------------------------------------------------------------
(* main of src/transfer_with_retry.py: the bounded scheduler *)

InitBounded ==
    /\ IdleOverlap /\ IdleHistory
    /\ prog = "bounded" /\ pc = "cycle_head"
    /\ cfg \in BoundedCfgs
    /\ remaining = Nodes
    /\ cycle = 0
    /\ todo = {} /\ candidates = << >> /\ sorted_nodes = << >> /\ stale = {}
    /\ k = 0 /\ xfers = << >> /\ probes = << >> /\ failed = {}
    /\ IdleRsync /\ IdleRegistry
    /\ attempts = [n \in Nodes |-> 0]

\* for cycle in range(1, max_cycles + 1): the range has a next value
CycleRangeCondInclusive(c, max_cycles) == c <= max_cycles

CycleRangeCond(c, max_cycles) == c < max_cycles

\* head of the for loop: the next cycle number, the early break, or the end
CycleHead ==
    /\ UNCHANGED overlapVars
    /\ UNCHANGED << synced, pulled >>
    /\ UNCHANGED probes
    /\ prog = "bounded" /\ pc = "cycle_head"
    /\ IF CycleRangeCond(cycle, MaxCyclesOf(cfg))
       THEN /\ cycle' = cycle + 1
            /\ IF remaining = {}
               THEN /\ pc' = "final"
                    /\ UNCHANGED << todo, candidates, stale, xfers, failed, ready, noavg >>
               ELSE /\ pc' = "build"
                    /\ todo' = remaining
                    /\ candidates' = << >>
                    /\ stale' = {}
                    /\ xfers' = << >>
                    /\ failed' = {}
                    /\ ready' = {}
                    /\ noavg' = {}
       ELSE /\ pc' = "final"
            /\ UNCHANGED << cycle, todo, candidates, stale, xfers, failed, ready, noavg >>
    /\ UNCHANGED << prog, cfg, remaining, sorted_nodes, k, cur, attempt, delay,
                    success, events, state, nodes, file, now, attempts >>

\* one iteration of "for name in list(remaining)": the heartbeat gate, then
\* the latency probe
BuildCandidate(n) ==
    /\ UNCHANGED overlapVars
    /\ UNCHANGED << synced, pulled >>
    /\ UNCHANGED failed
    /\ UNCHANGED probes
    /\ prog = "bounded" /\ pc = "build"
    /\ n \in todo
    /\ todo' = todo \ {n}
    /\ \E hb \in Heartbeats, out \in PingOutputs :
        /\ stale' = IF HeartbeatIsStale(hb, cfg.heartbeat_max_age)
                    THEN stale \cup {n} ELSE stale
        /\ ready' = IF ~HeartbeatIsStale(hb, cfg.heartbeat_max_age) /\ ProbeAnswered(out)
                    THEN ready \cup {n} ELSE ready
        /\ noavg' = IF ~HeartbeatIsStale(hb, cfg.heartbeat_max_age) /\ NoLatencyParsed(out)
                    THEN noavg \cup {n} ELSE noavg
        /\ IF ~HasFreshHeartbeat(hb, cfg.heartbeat_max_age)
           THEN UNCHANGED candidates
           ELSE IF PingLatency(out) = None
           THEN UNCHANGED candidates
           ELSE candidates' = Append(candidates,
                    [name |-> n, priority |-> PriorityOf(cfg.nodes[n]),
                     latency |-> PingLatency(out)])
    /\ UNCHANGED << prog, pc, cfg, remaining, cycle, sorted_nodes, k, cur, attempt,
                    delay, success, events, state, nodes, file, now, xfers, attempts >>

\* every remaining node was examined: sort the candidates, or skip the cycle.
\* sorted_nodes keeps the names in sorted order; the (priority, latency) of an
\* item is only logged after the sort, and candidates is not read again
\* before the next cycle rebinds it.
BuildDone ==
    /\ UNCHANGED overlapVars
    /\ UNCHANGED noavg
    /\ UNCHANGED << synced, ready, pulled >>
    /\ UNCHANGED failed
    /\ UNCHANGED probes
    /\ prog = "bounded" /\ pc = "build"
    /\ todo = {}
    /\ IF candidates = << >>
       THEN /\ pc' = "cycle_end"
            /\ UNCHANGED << sorted_nodes, k >>
       ELSE /\ sorted_nodes' = Names(SortedItems(candidates))
            /\ k' = 1
            /\ pc' = "transfer"
    /\ candidates' = << >>
    /\ UNCHANGED << prog, cfg, remaining, cycle, todo, cur, attempt,
                    delay, success, events, state, nodes, file, now, stale, xfers,
                    attempts >>

\* for name, ... in sorted_nodes: the list has an element at index j
TransferLoopCondFirstOnly(j, sn) == j <= Len(sn) /\ j <= 1

TransferLoopCond(j, sn) == j <= Len(sn)

\* next element of sorted_nodes: call rsync_data for it
StartTransfer ==
    /\ UNCHANGED overlapVars
    /\ UNCHANGED noavg
    /\ UNCHANGED << synced, ready, pulled >>
    /\ UNCHANGED failed
    /\ UNCHANGED probes
    /\ prog = "bounded" /\ pc = "transfer"
    /\ TransferLoopCond(k, sorted_nodes)
    /\ cur' = sorted_nodes[k]
    /\ xfers' = Append(xfers, sorted_nodes[k])
    /\ attempt' = 1
    /\ delay' = cfg.retry_delay
    /\ events' = << >>
    /\ success' = FALSE
    /\ pc' = "rsync"
    /\ UNCHANGED << prog, cfg, remaining, cycle, todo, candidates, sorted_nodes, k,
                    state, nodes, file, now, stale, attempts >>

RemainingAfterKeep(rem, n, ok) == rem

RemainingAfterAlways(rem, n, ok) == rem \ {n}

\* if success: remaining.remove(name)
RemainingAfter(rem, n, ok) == IF ok THEN rem \ {n} ELSE rem

\* rsync_data returned: update remaining, pause, go to the next candidate
AfterTransfer ==
    /\ UNCHANGED overlapVars
    /\ UNCHANGED noavg
    /\ UNCHANGED << ready, pulled >>
    /\ synced' = SyncedAfter(synced, cur, success)
    /\ failed' = FailedAfter(failed, cur, success, events)
    /\ UNCHANGED probes
    /\ prog = "bounded" /\ pc = "returned"
    /\ remaining' = RemainingAfter(remaining, cur, success)
    /\ k' = k + 1
    /\ cur' = NoNode
    /\ pc' = "transfer"
    /\ UNCHANGED << prog, cfg, cycle, todo, candidates, sorted_nodes, attempt, delay,
                    success, events, state, nodes, file, now, stale, xfers, attempts >>

\* the loop over sorted_nodes is over
TransferLoopEnd ==
    /\ UNCHANGED overlapVars
    /\ UNCHANGED noavg
    /\ UNCHANGED << synced, ready, pulled >>
    /\ UNCHANGED failed
    /\ UNCHANGED probes
    /\ prog = "bounded" /\ pc = "transfer"
    /\ ~TransferLoopCond(k, sorted_nodes)
    /\ pc' = "cycle_end"
    /\ UNCHANGED << prog, cfg, remaining, cycle, todo, candidates, sorted_nodes, k,
                    cur, attempt, delay, success, events, state, nodes, file, now,
                    stale, xfers, attempts >>

\* end of the cycle body: sleep cycle_delay when nodes are left and a cycle
\* follows
CycleEnd ==
    /\ UNCHANGED overlapVars
    /\ UNCHANGED noavg
    /\ UNCHANGED << synced, ready, pulled >>
    /\ UNCHANGED failed
    /\ UNCHANGED probes
    /\ prog = "bounded" /\ pc = "cycle_end"
    /\ pc' = "cycle_head"
    /\ UNCHANGED << prog, cfg, remaining, cycle, todo, candidates, sorted_nodes, k,
                    cur, attempt, delay, success, events, state, nodes, file, now,
                    stale, xfers, attempts >>

\* the FINAL log lines
Final ==
    /\ UNCHANGED overlapVars
    /\ UNCHANGED noavg
    /\ UNCHANGED << synced, ready, pulled >>
    /\ UNCHANGED failed
    /\ UNCHANGED probes
    /\ prog = "bounded" /\ pc = "final"
    /\ pc' = "done"
    /\ UNCHANGED << prog, cfg, remaining, cycle, todo, candidates, sorted_nodes, k,
                    cur, attempt, delay, success, events, state, nodes, file, now,
                    stale, xfers, attempts >>

NextBounded ==
    \/ CycleHead
    \/ \E n \in Nodes : BuildCandidate(n)
    \/ BuildDone
    \/ StartTransfer
    \/ RsyncAttempt
    \/ RsyncExhausted
    \/ AfterTransfer
    \/ TransferLoopEnd
    \/ CycleEnd
    \/ Final

SpecBounded == InitBounded /\ [][NextBounded]_vars

-----------------------------------------------------------------------------
(* The BEAM scripts: rsync_data, shared by both *)

boundedVars == << remaining, cycle, todo, candidates, sorted_nodes, stale >>

\* ping(ip): the return code of one ping
Ping(rc) == rc = 0

\* the clock moves on while a script runs
Tick ==
    /\ UNCHANGED overlapVars
    /\ UNCHANGED noavg
    /\ UNCHANGED << synced, ready, pulled >>
    /\ UNCHANGED failed
    /\ prog \in {"daily", "check"} /\ pc \notin {"done", "error"}
    /\ now < MaxNow
    /\ now' = now + 1
    /\ UNCHANGED << prog, pc, cfg, boundedVars, k, cur, attempt, delay, success,
                    events, state, nodes, file, xfers, probes, attempts >>

\* one iteration of "for attempt in range(1, max_retries + 1)": the copy and,
\* on failure, the sleep and the new delay
BeamRsyncAttempt ==
    /\ UNCHANGED overlapVars
    /\ UNCHANGED noavg
    /\ UNCHANGED << synced, ready, pulled >>
    /\ UNCHANGED failed
    /\ prog \in {"daily", "check", "overlap"} /\ pc = "beam_rsync"
    /\ attempt <= cfg.max_retries
    /\ attempts' = [attempts EXCEPT ![cur] = @ + 1]
    /\ \E ok \in BOOLEAN :
        IF ok
        THEN /\ events' = Append(events, AttemptEvent(attempt, TRUE))
             /\ success' = TRUE
             /\ pc' = "beam_returned"
             /\ UNCHANGED << attempt, delay >>
        ELSE /\ events' = events \o << AttemptEvent(attempt, FALSE), SleepEvent(delay) >>
             /\ delay' = BackoffStep(delay, cfg.backoff_factor)
             /\ attempt' = attempt + 1
             /\ UNCHANGED << success, pc >>
    /\ UNCHANGED << prog, cfg, boundedVars, k, cur, state, nodes, file, now, xfers,
                    probes >>

\* the range is used up: return False
BeamRsyncExhausted ==
    /\ UNCHANGED overlapVars
    /\ UNCHANGED noavg
    /\ UNCHANGED << synced, ready, pulled >>
    /\ UNCHANGED failed
    /\ prog \in {"daily", "check", "overlap"} /\ pc = "beam_rsync"
    /\ ~(attempt <= cfg.max_retries)
    /\ success' = FALSE
    /\ pc' = "beam_returned"
    /\ UNCHANGED << prog, cfg, boundedVars, k, cur, attempt, delay, events, state,
                    nodes, file, now, xfers, probes, attempts >>

-----------------------------------------------------------------------------
(* main of src/beam/BEAM_supervisor_package/transfer_with_retry.py: the     *)
(* daily run                                                                *)

InitDaily ==
    /\ IdleOverlap /\ IdleHistory
    /\ prog = "daily" /\ pc = "daily_loop"
    /\ cfg \in BeamCfgs
    /\ IdleBounded /\ IdleRsync
    /\ file \in StateFiles
    /\ state = LoadJson(file)
    /\ nodes = NoNodes
    /\ now = StartTime
    /\ k = 1 /\ xfers = << >> /\ probes = << >> /\ failed = {}
    /\ attempts = [n \in Nodes |-> 0]

\* state[name] can be evaluated: a missing key raises KeyError
HasRecord(st, name) == name \in DOMAIN st

\* the state record after a failed ping
DailyOffline(rec, t) ==
    [rec EXCEPT !.node_alive = FALSE, !.last_offline_time = t]

DailyPullResultAlwaysClear(rec, ok, t) == [rec EXCEPT !.fail_to_request_data = FALSE]

\* the state record after rsync_data returned
DailyPullResult(rec, ok, t) ==
    IF ok THEN [rec EXCEPT !.fail_to_request_data = FALSE]
    ELSE [rec EXCEPT !.fail_to_request_data = TRUE, !.last_fail_time = t]

\* one iteration of the loop over config["nodes"]: the ping, and either the
\* offline bookkeeping or the call of rsync_data
DailyNode ==
    /\ UNCHANGED overlapVars
    /\ UNCHANGED noavg
    /\ UNCHANGED << synced, ready, pulled >>
    /\ UNCHANGED failed
    /\ prog = "daily" /\ pc = "daily_loop"
    /\ k <= Len(NodeOrder)
    /\ LET name == NodeOrder[k] IN
       \E rc \in {0, 1} :
        /\ probes' = Append(probes, [name |-> name, ok |-> Ping(rc)])
        /\ IF ~Ping(rc)
           THEN /\ IF HasRecord(state, name)
                   THEN /\ state' = [state EXCEPT ![name] = DailyOffline(@, now)]
                        /\ k' = k + 1
                        /\ UNCHANGED pc
                   ELSE /\ pc' = "error"
                        /\ UNCHANGED << state, k >>
                /\ UNCHANGED << cur, attempt, delay, success, events, xfers >>
           ELSE /\ cur' = name
                /\ xfers' = Append(xfers, name)
                /\ attempt' = 1
                /\ delay' = cfg.retry_delay
                /\ events' = << >>
                /\ success' = FALSE
                /\ pc' = "beam_rsync"
                /\ UNCHANGED << state, k >>
    /\ UNCHANGED << prog, cfg, boundedVars, nodes, file, now, attempts >>

\* rsync_data returned: set or clear the flag, go to the next node
DailyResult ==
    /\ UNCHANGED overlapVars
    /\ UNCHANGED noavg
    /\ UNCHANGED << ready, pulled >>
    /\ failed' = FailedAfter(failed, cur, success, events)
    /\ synced' = SyncedAfter(synced, cur, success)
    /\ prog = "daily" /\ pc = "beam_returned"
    /\ IF HasRecord(state, cur)
       THEN /\ state' = [state EXCEPT ![cur] = DailyPullResult(@, success, now)]
            /\ k' = k + 1
            /\ pc' = "daily_loop"
       ELSE /\ pc' = "error"
            /\ UNCHANGED << state, k >>
    /\ cur' = NoNode
    /\ UNCHANGED << prog, cfg, boundedVars, attempt, delay, success, events, nodes,
                    file, now, xfers, probes, attempts >>

\* save_json begins: open(path, "w") truncates the state file
BeamOpenStateFile ==
    /\ UNCHANGED overlapVars
    /\ UNCHANGED noavg
    /\ UNCHANGED << synced, ready, pulled >>
    /\ UNCHANGED failed
    /\ \/ prog = "daily" /\ pc = "daily_loop" /\ pc' = "daily_save"
       \/ prog \in {"check", "overlap"} /\ pc = "check_catchup" /\ pc' = "check_save"
    /\ k > Len(NodeOrder)
    /\ file' = EmptyFile
    /\ UNCHANGED << prog, cfg, boundedVars, k, cur, attempt, delay, success, events,
                    state, nodes, now, xfers, probes, attempts >>

\* save_json ends: json.dump has written the state and the file is closed
DailySave ==
    /\ UNCHANGED overlapVars
    /\ UNCHANGED noavg
    /\ UNCHANGED << synced, ready, pulled >>
    /\ UNCHANGED failed
    /\ prog = "daily" /\ pc = "daily_save"
    /\ file' = state
    /\ pc' = "done"
    /\ UNCHANGED << prog, cfg, boundedVars, k, cur, attempt, delay, success, events,
                    state, nodes, now, xfers, probes, attempts >>

NextDaily ==
    \/ DailyNode
    \/ BeamRsyncAttempt
    \/ BeamRsyncExhausted
    \/ DailyResult
    \/ BeamOpenStateFile
    \/ DailySave
    \/ Tick

SpecDaily == InitDaily /\ [][NextDaily]_vars

-----------------------------------------------------------------------------
(* main of src/beam/BEAM_supervisor_package/supervisor_ping_check.py: the   *)
(* health check with its catch-up pass                                      *)

InitCheck ==
    /\ IdleOverlap /\ IdleHistory
    /\ prog = "check" /\ pc = "check_probe"
    /\ cfg \in BeamCfgs
    /\ IdleBounded /\ IdleRsync
    /\ file \in StateFiles
    /\ state = LoadJson(file)
    /\ nodes = NoNodes
    /\ now = StartTime
    /\ k = 1 /\ xfers = << >> /\ probes = << >> /\ failed = {}
    /\ attempts = [n \in Nodes |-> 0]

\* the state record after one ping of the health check
CheckProbeResult(rec, is_alive, t) ==
    IF is_alive /\ ~rec.node_alive
    THEN [rec EXCEPT !.node_alive = TRUE, !.last_online_time = t]
    ELSE IF ~is_alive /\ rec.node_alive
    THEN [rec EXCEPT !.node_alive = FALSE, !.last_offline_time = t]
    ELSE rec

\* one iteration of the first loop: ping the node, record a transition
CheckProbe ==
    /\ UNCHANGED overlapVars
    /\ UNCHANGED noavg
    /\ UNCHANGED << synced, ready, pulled >>
    /\ UNCHANGED failed
    /\ prog \in {"check", "overlap"} /\ pc = "check_probe"
    /\ k <= Len(NodeOrder)
    /\ LET name == NodeOrder[k] IN
       \E rc \in {0, 1} :
        /\ probes' = Append(probes, [name |-> name, ok |-> Ping(rc)])
        /\ IF HasRecord(state, name)
           THEN /\ state' = [state EXCEPT ![name] = CheckProbeResult(@, Ping(rc), now)]
                /\ k' = k + 1
                /\ UNCHANGED pc
           ELSE /\ pc' = "error"
                /\ UNCHANGED << state, k >>
    /\ UNCHANGED << prog, cfg, boundedVars, cur, attempt, delay, success, events,
                    nodes, file, now, xfers, attempts >>

\* the first loop is over: start the second one
CheckProbeEnd ==
    /\ UNCHANGED overlapVars
    /\ UNCHANGED noavg
    /\ UNCHANGED << synced, ready, pulled >>
    /\ UNCHANGED failed
    /\ prog \in {"check", "overlap"} /\ pc = "check_probe"
    /\ k > Len(NodeOrder)
    /\ k' = 1
    /\ pc' = "check_catchup"
    /\ UNCHANGED << prog, cfg, boundedVars, cur, attempt, delay, success, events,
                    state, nodes, file, now, xfers, probes, attempts >>

\* if state[name]["fail_to_request_data"] and state[name]["node_alive"]
CatchupCond(rec) == rec.fail_to_request_data /\ rec.node_alive

\* one iteration of the second loop: call rsync_data for a flagged, alive node
CheckCatchup ==
    /\ UNCHANGED overlapVars
    /\ UNCHANGED noavg
    /\ UNCHANGED << synced, ready, pulled >>
    /\ UNCHANGED failed
    /\ prog \in {"check", "overlap"} /\ pc = "check_catchup"
    /\ k <= Len(NodeOrder)
    /\ LET name == NodeOrder[k] IN
        IF CatchupCond(state[name])
        THEN /\ cur' = name
             /\ xfers' = Append(xfers, name)
             /\ attempt' = 1
             /\ delay' = cfg.retry_delay
             /\ events' = << >>
             /\ success' = FALSE
             /\ pc' = "beam_rsync"
             /\ UNCHANGED k
        ELSE /\ k' = k + 1
             /\ UNCHANGED << pc, cur, attempt, delay, success, events, xfers >>
    /\ UNCHANGED << prog, cfg, boundedVars, state, nodes, file, now, probes, attempts >>

\* the state record after the catch-up rsync_data returned
CatchupResult(rec, ok, t) ==
    IF ok THEN [rec EXCEPT !.fail_to_request_data = FALSE] ELSE rec

\* rsync_data returned: clear the flag on success, go to the next node
CheckResult ==
    /\ UNCHANGED overlapVars
    /\ UNCHANGED noavg
    /\ UNCHANGED << ready, pulled >>
    /\ failed' = FailedAfter(failed, cur, success, events)
    /\ synced' = SyncedAfter(synced, cur, success)
    /\ prog \in {"check", "overlap"} /\ pc = "beam_returned"
    /\ state' = [state EXCEPT ![cur] = CatchupResult(@, success, now)]
    /\ k' = k + 1
    /\ cur' = NoNode
    /\ pc' = "check_catchup"
    /\ UNCHANGED << prog, cfg, boundedVars, attempt, delay, success, events, nodes,
                    file, now, xfers, probes, attempts >>

\* save_json(STATE_PATH, state) after the second loop
CheckSave ==
    /\ UNCHANGED overlapVars
    /\ UNCHANGED noavg
    /\ UNCHANGED << synced, ready, pulled >>
    /\ UNCHANGED failed
    /\ prog \in {"check", "overlap"} /\ pc = "check_save"
    /\ file' = state
    /\ pc' = "done"
    /\ UNCHANGED << prog, cfg, boundedVars, k, cur, attempt, delay, success, events,
                    state, nodes, now, xfers, probes, attempts >>

NextCheck ==
    \/ CheckProbe
    \/ CheckProbeEnd
    \/ CheckCatchup
    \/ BeamRsyncAttempt
    \/ BeamRsyncExhausted
    \/ CheckResult
    \/ BeamOpenStateFile
    \/ CheckSave
    \/ Tick

SpecCheck == InitCheck /\ [][NextCheck]_vars

-----------------------------------------------------------------------------
(* main of src/queue_shipped_data.py: the daemon *)

\* ping_latency of src/queue_shipped_data.py: None when ping fails and when
\* no line of its output carries an average; line.split("/")[4] and float()
\* raise IndexError or ValueError on an average line of another shape, and
\* only CalledProcessError is caught
DaemonPingLatency(out) ==
    IF out.rc # 0 THEN None
    ELSE IF out.avg = NoAvg THEN None
    ELSE IF out.avg = BadAvg THEN Raised
    ELSE out.avg

InitDaemon ==
    /\ IdleOverlap /\ IdleHistory
    /\ prog = "daemon" /\ pc = "ping_nodes"
    /\ cfg = NoCfg
    /\ IdleBounded /\ IdleRsync
    /\ state = NoState
    /\ file \in [RegNodes -> FileNodeRecords]
    /\ nodes = LoadNodes(file)
    /\ now = StartTime
    /\ k = 1 /\ xfers = << >> /\ probes = << >> /\ failed = {}
    /\ attempts = [n \in Nodes |-> 0]

\* one iteration of ping_nodes: alive or dead by the probe
PingNode ==
    /\ UNCHANGED overlapVars
    /\ UNCHANGED << synced, ready, pulled >>
    /\ UNCHANGED failed
    /\ prog = "daemon" /\ pc = "ping_nodes"
    /\ k <= Len(NodeOrder)
    /\ LET name == NodeOrder[k] IN
       \E out \in PingOutputs :
        /\ noavg' = IF NoLatencyParsed(out) THEN noavg \cup {name} ELSE noavg
        /\ IF DaemonPingLatency(out) = Raised
           THEN /\ pc' = "error"
                /\ UNCHANGED << probes, nodes, k >>
           ELSE /\ probes' = Append(probes, [name |-> name, ok |-> DaemonPingLatency(out) # None])
                /\ nodes' = [nodes EXCEPT ![name].state =
                                IF DaemonPingLatency(out) # None THEN "alive" ELSE "dead"]
                /\ k' = k + 1
                /\ UNCHANGED pc
    /\ UNCHANGED << prog, cfg, boundedVars, cur, attempt, delay, success, events,
                    state, file, now, xfers, attempts >>

\* save_nodes begins: the data is built and open(json_filepath, "w")
\* truncates the state file
DaemonOpenStateFile ==
    /\ UNCHANGED overlapVars
    /\ UNCHANGED noavg
    /\ UNCHANGED << synced, ready, pulled >>
    /\ UNCHANGED failed
    /\ prog = "daemon"
    /\ \/ pc = "ping_nodes" /\ pc' = "ping_nodes_save"
       \/ pc = "initial" /\ pc' = "initial_save"
       \/ pc = "ping_dead" /\ pc' = "ping_dead_save"
       \/ pc = "retry" /\ pc' = "retry_save"
    /\ k > Len(NodeOrder)
    /\ file' = EmptyFile
    /\ UNCHANGED << prog, cfg, boundedVars, k, cur, attempt, delay, success, events,
                    state, nodes, now, xfers, probes, attempts >>

\* ping_nodes is over: save_nodes, then the initial transfer loop
PingNodesSave ==
    /\ UNCHANGED overlapVars
    /\ UNCHANGED noavg
    /\ UNCHANGED << synced, ready, pulled >>
    /\ UNCHANGED failed
    /\ prog = "daemon" /\ pc = "ping_nodes_save"
    /\ file' = SaveNodes(nodes)
    /\ k' = 1
    /\ pc' = "initial"
    /\ UNCHANGED << prog, cfg, boundedVars, cur, attempt, delay, success, events,
                    state, nodes, now, xfers, probes, attempts >>

\* if node.state == "alive" and not node.transfer_fail
InitialCond(node) == node.state = "alive" /\ ~node.transfer_fail

\* one iteration of the initial loop: rsync_shipped_data for an alive node
\* that has not failed yet
InitialNode ==
    /\ UNCHANGED overlapVars
    /\ UNCHANGED noavg
    /\ UNCHANGED << synced, ready >>
    /\ UNCHANGED failed
    /\ prog = "daemon" /\ pc = "initial"
    /\ k <= Len(NodeOrder)
    /\ LET name == NodeOrder[k] IN
        IF InitialCond(nodes[name])
        THEN /\ cur' = name
             /\ xfers' = Append(xfers, name)
             /\ pulled' = pulled \cup {name}
             /\ \E ok \in BOOLEAN : success' = ok
             /\ pc' = "initial_returned"
             /\ UNCHANGED k
        ELSE /\ k' = k + 1
             /\ UNCHANGED << pc, cur, success, xfers, pulled >>
    /\ UNCHANGED << prog, cfg, boundedVars, attempt, delay, events, state, nodes, file,
                    now, probes, attempts >>

\* rsync_shipped_data returned in the initial loop: set the flag on failure
InitialResult ==
    /\ UNCHANGED overlapVars
    /\ UNCHANGED noavg
    /\ UNCHANGED << ready, pulled >>
    /\ failed' = IF ~success THEN failed \cup {cur} ELSE failed
    /\ synced' = SyncedAfter(synced, cur, success)
    /\ prog = "daemon" /\ pc = "initial_returned"
    /\ nodes' = [nodes EXCEPT ![cur].transfer_fail = IF ~success THEN TRUE ELSE @]
    /\ k' = k + 1
    /\ cur' = NoNode
    /\ success' = FALSE
    /\ pc' = "initial"
    /\ UNCHANGED << prog, cfg, boundedVars, attempt, delay, events, state, file, now,
                    xfers, probes, attempts >>

\* the initial loop is over: save_nodes, then sleep RETRY_INTERVAL
InitialSave ==
    /\ UNCHANGED overlapVars
    /\ UNCHANGED noavg
    /\ UNCHANGED << synced, ready, pulled >>
    /\ UNCHANGED failed
    /\ prog = "daemon" /\ pc = "initial_save"
    /\ file' = SaveNodes(nodes)
    /\ pc' = "sleep"
    /\ UNCHANGED << prog, cfg, boundedVars, k, cur, attempt, delay, success, events,
                    state, nodes, now, xfers, probes, attempts >>

\* time.sleep(RETRY_INTERVAL) returns: a retry cycle begins
Sleep ==
    /\ UNCHANGED overlapVars
    /\ UNCHANGED << synced, ready, pulled >>
    /\ failed' = {}
    /\ noavg' = {}
    /\ prog = "daemon" /\ pc = "sleep"
    /\ k' = 1
    /\ xfers' = << >>
    /\ probes' = << >>
    /\ pc' = "ping_dead"
    /\ UNCHANGED << prog, cfg, boundedVars, cur, attempt, delay, success, events,
                    state, nodes, file, now, attempts >>

\* one iteration of ping_dead_nodes: a node that is not alive is probed and
\* marked alive when it answers
PingDeadNode ==
    /\ UNCHANGED overlapVars
    /\ UNCHANGED << synced, ready, pulled >>
    /\ UNCHANGED failed
    /\ prog = "daemon" /\ pc = "ping_dead"
    /\ k <= Len(NodeOrder)
    /\ LET name == NodeOrder[k] IN
        IF nodes[name].state # "alive"
        THEN \E out \in PingOutputs :
              /\ noavg' = IF NoLatencyParsed(out) THEN noavg \cup {name} ELSE noavg
              /\ IF DaemonPingLatency(out) = Raised
                 THEN /\ pc' = "error"
                      /\ UNCHANGED << probes, nodes, k >>
                 ELSE /\ probes' = Append(probes, [name |-> name, ok |-> DaemonPingLatency(out) # None])
                      /\ nodes' = [nodes EXCEPT ![name].state =
                                      IF DaemonPingLatency(out) # None THEN "alive" ELSE @]
                      /\ k' = k + 1
                      /\ UNCHANGED pc
        ELSE /\ k' = k + 1
             /\ UNCHANGED << probes, nodes, pc, noavg >>
    /\ UNCHANGED << prog, cfg, boundedVars, cur, attempt, delay, success, events,
                    state, file, now, xfers, attempts >>

\* ping_dead_nodes is over: save_nodes, then the retry loop
PingDeadSave ==
    /\ UNCHANGED overlapVars
    /\ UNCHANGED noavg
    /\ UNCHANGED << synced, ready, pulled >>
    /\ UNCHANGED failed
    /\ prog = "daemon" /\ pc = "ping_dead_save"
    /\ file' = SaveNodes(nodes)
    /\ k' = 1
    /\ pc' = "retry"
    /\ UNCHANGED << prog, cfg, boundedVars, cur, attempt, delay, success, events,
                    state, nodes, now, xfers, probes, attempts >>

\* if node.state == "alive" and node.transfer_fail
RetryCond(node) == node.state = "alive" /\ node.transfer_fail

\* one iteration of the retry loop: rsync_shipped_data for an alive node whose
\* flag is set
RetryNode ==
    /\ UNCHANGED overlapVars
    /\ UNCHANGED noavg
    /\ UNCHANGED << synced, ready >>
    /\ UNCHANGED failed
    /\ prog = "daemon" /\ pc = "retry"
    /\ k <= Len(NodeOrder)
    /\ LET name == NodeOrder[k] IN
        IF RetryCond(nodes[name])
        THEN /\ cur' = name
             /\ xfers' = Append(xfers, name)
             /\ pulled' = pulled \cup {name}
             /\ \E ok \in BOOLEAN : success' = ok
             /\ pc' = "retry_returned"
             /\ UNCHANGED k
        ELSE /\ k' = k + 1
             /\ UNCHANGED << pc, cur, success, xfers, pulled >>
    /\ UNCHANGED << prog, cfg, boundedVars, attempt, delay, events, state, nodes, file,
                    now, probes, attempts >>

\* if success: node.transfer_fail = False
RetryFlag(flag, ok) == IF ok THEN FALSE ELSE flag

\* rsync_shipped_data returned in the retry loop: clear the flag on success
RetryResult ==
    /\ UNCHANGED overlapVars
    /\ UNCHANGED noavg
    /\ UNCHANGED << ready, pulled >>
    /\ failed' = IF ~success THEN failed \cup {cur} ELSE failed
    /\ synced' = SyncedAfter(synced, cur, success)
    /\ prog = "daemon" /\ pc = "retry_returned"
    /\ nodes' = [nodes EXCEPT ![cur].transfer_fail = RetryFlag(@, success)]
    /\ k' = k + 1
    /\ cur' = NoNode
    /\ success' = FALSE
    /\ pc' = "retry"
    /\ UNCHANGED << prog, cfg, boundedVars, attempt, delay, events, state, file, now,
                    xfers, probes, attempts >>

\* the retry loop is over: save_nodes, then sleep again
RetrySave ==
    /\ UNCHANGED overlapVars
    /\ UNCHANGED noavg
    /\ UNCHANGED << synced, ready, pulled >>
    /\ UNCHANGED failed
    /\ prog = "daemon" /\ pc = "retry_save"
    /\ file' = SaveNodes(nodes)
    /\ pc' = "sleep"
    /\ UNCHANGED << prog, cfg, boundedVars, k, cur, attempt, delay, success, events,
                    state, nodes, now, xfers, probes, attempts >>

NextDaemon ==
    \/ PingNode
    \/ DaemonOpenStateFile
    \/ PingNodesSave
    \/ InitialNode
    \/ InitialResult
    \/ InitialSave
    \/ Sleep
    \/ PingDeadNode
    \/ PingDeadSave
    \/ RetryNode
    \/ RetryResult
    \/ RetrySave

SpecDaemon == InitDaemon /\ [][NextDaemon]_vars

\* the daemon never stops by itself: sleeps and external commands return
FairDaemon == SpecDaemon /\ WF_vars(NextDaemon)

-----------------------------------------------------------------------------
(* The health check and the daily run started so that they overlap: both    *)
(* scripts load and save the same STATE_PATH. The health check runs as      *)
(* above; the daily run is a second process with its own state dict.        *)

\* everything but the state file and the second process
checkVars == << prog, pc, cfg, boundedVars, k, cur, attempt, delay, success, events,
                state, nodes, now, xfers, probes, failed, attempts, synced, ready,
                pulled, noavg >>

\* state files of the overlapping runs: every node has a record and no
\* timestamp yet
OverlapFiles ==
    [RegNodes -> {r \in StateRecords :
        r.last_online_time = 0 /\ r.last_offline_time = 0 /\ r.last_fail_time = 0}]

InitOverlap ==
    /\ prog = "overlap" /\ pc = "check_probe"
    /\ cfg \in BeamCfgs
    /\ IdleBounded /\ IdleRsync /\ IdleHistory
    /\ file \in OverlapFiles
    /\ state = LoadJson(file)
    /\ file0 = file
    /\ nodes = NoNodes
    /\ now = StartTime
    /\ k = 1 /\ xfers = << >> /\ probes = << >> /\ failed = {}
    /\ attempts = [n \in Nodes |-> 0]
    /\ pc2 = "d_start" /\ state2 = << >> /\ k2 = 0 /\ base2 = << >>

\* the daily run starts: load_json(STATE_PATH); json.load raises on a file
\* that another save has just truncated
OverlapDailyLoad ==
    /\ prog = "overlap" /\ pc2 = "d_start"
    /\ IF file = EmptyFile
       THEN /\ pc2' = "d_error"
            /\ UNCHANGED << state2, base2, k2 >>
       ELSE /\ state2' = LoadJson(file)
            /\ base2' = file
            /\ k2' = 1
            /\ pc2' = "d_loop"
    /\ UNCHANGED << checkVars, file, file0 >>

\* the result of one rsync_data call of the daily run: False when the range
\* of attempts is empty
OverlapPullResults(max_retries) == IF max_retries >= 1 THEN BOOLEAN ELSE {FALSE}

\* one iteration of the daily run's loop, with the whole rsync_data call
OverlapDailyNode ==
    /\ prog = "overlap" /\ pc2 = "d_loop"
    /\ k2 <= Len(NodeOrder)
    /\ LET name == NodeOrder[k2] IN
       \E rc \in {0, 1}, ok \in OverlapPullResults(cfg.max_retries) :
        IF ~Ping(rc)
        THEN state2' = [state2 EXCEPT ![name] = DailyOffline(@, now)]
        ELSE state2' = [state2 EXCEPT ![name] = DailyPullResult(@, ok, now)]
    /\ k2' = k2 + 1
    /\ UNCHANGED << checkVars, file, file0, pc2, base2 >>

\* the daily run's save_json begins: open(path, "w") truncates the file
OverlapDailyOpen ==
    /\ prog = "overlap" /\ pc2 = "d_loop"
    /\ k2 > Len(NodeOrder)
    /\ file' = EmptyFile
    /\ pc2' = "d_save"
    /\ UNCHANGED << checkVars, file0, state2, k2, base2 >>

\* the daily run's save_json ends: its state dict is in the file
OverlapDailySave ==
    /\ prog = "overlap" /\ pc2 = "d_save"
    /\ file' = state2
    /\ pc2' = "d_done"
    /\ UNCHANGED << checkVars, file0, state2, k2, base2 >>

NextOverlap ==
    \/ CheckProbe
    \/ CheckProbeEnd
    \/ CheckCatchup
    \/ BeamRsyncAttempt
    \/ BeamRsyncExhausted
    \/ CheckResult
    \/ BeamOpenStateFile
    \/ CheckSave
    \/ OverlapDailyLoad
    \/ OverlapDailyNode
    \/ OverlapDailyOpen
    \/ OverlapDailySave

SpecOverlap == InitOverlap /\ [][NextOverlap]_vars

-----------------------------------------------------------------------------
(* The registry scripts with a stop signal: no script installs a signal      *)
(* handler or catches KeyboardInterrupt, so SIGTERM ends the process and     *)
(* SIGINT raises KeyboardInterrupt out of main, wherever the script is.      *)

\* the stop signal arrives: the process exits where it is
StopSignal ==
    /\ prog \in {"daily", "check", "daemon"}
    /\ pc \notin {"done", "error", "stopped"}
    /\ pc' = "stopped"
    /\ UNCHANGED << prog, cfg, boundedVars, k, cur, attempt, delay, success, events,
                    state, nodes, file, now, xfers, probes, failed, attempts, synced,
                    ready, pulled, noavg, overlapVars >>

InitStop == InitDaily \/ InitCheck \/ InitDaemon

NextStop ==
    \/ DailyNode
    \/ BeamRsyncAttempt
    \/ BeamRsyncExhausted
    \/ DailyResult
    \/ BeamOpenStateFile
    \/ DailySave
    \/ CheckProbe
    \/ CheckProbeEnd
    \/ CheckCatchup
    \/ CheckResult
    \/ CheckSave
    \/ Tick
    \/ PingNode
    \/ DaemonOpenStateFile
    \/ PingNodesSave
    \/ InitialNode
    \/ InitialResult
    \/ InitialSave
    \/ Sleep
    \/ PingDeadNode
    \/ PingDeadSave
    \/ RetryNode
    \/ RetryResult
    \/ RetrySave
    \/ StopSignal

SpecStop == InitStop /\ [][NextStop]_vars

-----------------------------------------------------------------------------
(* All programs *)

Init == InitRsync \/ InitBounded \/ InitDaily \/ InitCheck \/ InitDaemon

Next ==
    \/ RsyncAttempt
    \/ RsyncExhausted
    \/ CycleHead
    \/ \E n \in Nodes : BuildCandidate(n)
    \/ BuildDone
    \/ StartTransfer
    \/ AfterTransfer
    \/ TransferLoopEnd
    \/ CycleEnd
    \/ Final
    \/ Tick
    \/ BeamRsyncAttempt
    \/ BeamRsyncExhausted
    \/ DailyNode
    \/ DailyResult
    \/ BeamOpenStateFile
    \/ DailySave
    \/ CheckProbe
    \/ CheckProbeEnd
    \/ CheckCatchup
    \/ CheckResult
    \/ CheckSave
    \/ PingNode
    \/ DaemonOpenStateFile
    \/ PingNodesSave
    \/ InitialNode
    \/ InitialResult
    \/ InitialSave
    \/ Sleep
    \/ PingDeadNode
    \/ PingDeadSave
    \/ RetryNode
    \/ RetryResult
    \/ RetrySave

Spec == Init /\ [][Next]_vars

-----------------------------------------------------------------------------
(* Claims *)

\* the candidate record of a name in the candidates of this cycle
CandOf(name) == CHOOSE c \in SeqSet(candidates) : c.name = name
\* the priority a node ranks with: the configured one, or 999
RankPriority(n) == IF cfg.nodes[n].has_priority THEN cfg.nodes[n].priority ELSE 999
\* X sorts strictly before Y by (priority, latency)
RanksBefore(x, y) ==
    \/ RankPriority(x.name) < RankPriority(y.name)
    \/ RankPriority(x.name) = RankPriority(y.name) /\ x.latency < y.latency
ExampleCandidates ==
    { [name |-> "A", priority |-> 1, latency |-> 50],
      [name |-> "B", priority |-> 1, latency |-> 10],
      [name |-> "C", priority |-> 2, latency |-> 1] }

\* C1: in every cycle of the bounded scheduler the transfers are invoked in
\* ascending order of (priority, latency) as measured at candidate building:
\* the sorted list holds exactly the candidates, X stands before Y whenever
\* X ranks strictly before Y (a missing priority ranking as 999), the
\* transfers follow the sorted list without skipping or reordering, and the
\* candidates A(1,50), B(1,10), C(2,1) are processed as B, A, C.
C1_TransferOrder ==
    /\ [][ (prog = "bounded" /\ pc = "build" /\ pc' = "transfer") =>
             /\ Len(sorted_nodes') = Len(candidates)
             /\ SeqSet(sorted_nodes') = {c.name : c \in SeqSet(candidates)}
             /\ \A i, j \in 1..Len(sorted_nodes') :
                   RanksBefore(CandOf(sorted_nodes'[i]), CandOf(sorted_nodes'[j])) => i < j
             /\ (SeqSet(candidates) = ExampleCandidates
                   => sorted_nodes' = << "B", "A", "C" >>) ]_vars
    /\ [][ (prog = "bounded" /\ pc = "transfer" /\ pc' = "cycle_end") =>
             xfers = sorted_nodes ]_vars
    /\ [](prog = "bounded" /\ pc \in {"transfer", "rsync", "returned"} =>
             /\ Len(xfers) <= Len(sorted_nodes)
             /\ xfers = SubSeq(sorted_nodes, 1, Len(xfers)))

\* a cycle over the example priorities whose transfers ran as B, A, C
C1_Witness ==
    /\ prog = "bounded" /\ pc = "cycle_end"
    /\ cfg.nodes = [A |-> Prio(1), B |-> Prio(1), C |-> Prio(2)]
    /\ xfers = << "B", "A", "C" >>

\* the sleeps and the attempts among the events of the current call
SleepsOf(evs) == SelectSeq(evs, LAMBDA e : e.kind = "sleep")
AttemptsOf(evs) == SelectSeq(evs, LAMBDA e : e.kind = "attempt")
\* int(d * num / den) for d >= 0: the largest q with q * den <= d * num
Truncated(d, bf) == CHOOSE q \in 0..(d * bf.num) :
                        q * bf.den <= d * bf.num /\ d * bf.num < (q + 1) * bf.den

\* C2: when every attempt of one rsync_data call fails (max_retries >= 1),
\* exactly max_retries - 1 sleeps happen, one between each two consecutive
\* attempts and none after the last; the first lasts retry_delay and each
\* later one int(previous * backoff_factor); for 5, 2.0, 4 they are 5, 10, 20.
C2_BackoffSleeps ==
    (prog = "rsync" /\ pc = "returned" /\ ~success /\ cfg.max_retries >= 1) =>
        LET sl == SleepsOf(events) IN
        /\ Len(sl) = cfg.max_retries - 1
        /\ Len(events) = 2 * cfg.max_retries - 1
        /\ \A i \in 1..Len(events) :
              events[i].kind = (IF i % 2 = 1 THEN "attempt" ELSE "sleep")
        /\ Len(sl) >= 1 => sl[1].val = cfg.retry_delay
        /\ \A i \in 2..Len(sl) : sl[i].val = Truncated(sl[i - 1].val, cfg.backoff_factor)
        /\ (cfg.retry_delay = 5 /\ cfg.backoff_factor = [num |-> 2, den |-> 1]
              /\ cfg.max_retries = 4)
              => [i \in 1..Len(sl) |-> sl[i].val] = << 5, 10, 20 >>

\* four failed attempts with retry_delay 5 and factor 2.0
C2_Witness ==
    /\ prog = "rsync" /\ pc = "returned" /\ ~success
    /\ cfg.max_retries = 4 /\ cfg.retry_delay = 5
    /\ cfg.backoff_factor = [num |-> 2, den |-> 1]
    /\ Len(AttemptsOf(events)) = 4
    /\ Len(SleepsOf(events)) = 3

\* C3: one rsync_data call invokes the copy at most max_retries times, makes
\* no attempt after a successful one, returns True exactly when an attempt
\* succeeded, makes exactly k attempts when attempt k is the first to
\* succeed, and with max_retries <= 0 makes no attempt and returns False.
C3_AttemptsAndResult ==
    prog = "rsync" =>
        LET at == AttemptsOf(events) IN
        /\ Len(at) <= (IF cfg.max_retries > 0 THEN cfg.max_retries ELSE 0)
        /\ attempts[cur] = Len(at)
        /\ \A i \in 1..Len(at) : at[i].val = i
        /\ \A i \in 1..Len(at) : at[i].ok => i = Len(at)
        /\ pc = "returned" =>
              /\ success <=> (\E i \in 1..Len(at) : at[i].ok)
              /\ ~success => Len(at) = (IF cfg.max_retries > 0 THEN cfg.max_retries ELSE 0)
        /\ pc = "rsync" => \A i \in 1..Len(at) : ~at[i].ok
        /\ cfg.max_retries <= 0 => Len(at) = 0 /\ ~success

\* two failures, then the third attempt succeeds and the call returns
C3_Witness ==
    /\ prog = "rsync" /\ pc = "returned" /\ success
    /\ Len(AttemptsOf(events)) = 3
    /\ cfg.max_retries = 4

\* C4: a node whose heartbeat marker was missing or too old at candidate
\* building is not handed to rsync_data in that cycle and is still in
\* remaining, up to the end of the cycle.
C4_StaleHeartbeatSkipped ==
    prog = "bounded" =>
        \A n \in stale :
            /\ n \in remaining
            /\ n \notin SeqSet(xfers)
            /\ n \notin {c.name : c \in SeqSet(candidates)}
            /\ cur # n
            /\ pc \in {"transfer", "rsync", "returned"} => n \notin SeqSet(sorted_nodes)

\* a cycle ended in which one node was gated out and another was transferred
C4_Witness ==
    /\ prog = "bounded" /\ pc = "cycle_end"
    /\ stale # {}
    /\ xfers # << >>

\* the recorded health of a registry node is Alive
RecordedAlive(n) ==
    IF prog = "daemon" THEN nodes[n].state = "alive"
    ELSE n \in DOMAIN state /\ state[n].node_alive
\* this step invokes a transfer for node n
TransferInvoked(n) ==
    /\ Len(xfers') = Len(xfers) + 1
    /\ xfers'[Len(xfers')] = n
\* this step probes node n and the probe answers r
ProbedNow(n, r) ==
    /\ Len(probes') = Len(probes) + 1
    /\ probes'[Len(probes')] = [name |-> n, ok |-> r]

\* C5: in the daily run, the catch-up pass and the daemon, no transfer is
\* invoked for a node whose recorded health is not Alive at that moment.
C5_TransferOnlyWhenAlive ==
    [][ (prog \in {"daily", "check", "daemon"}) =>
          (\A n \in RegNodes : TransferInvoked(n) => RecordedAlive(n)) ]_vars

\* C6: in the health check and the daily run, node_alive changes only in a
\* step that probes that node, and a probe whose answer equals the recorded
\* node_alive leaves node_alive, last_online_time and last_offline_time as
\* they were.
C6_HealthOnlyByProbe ==
    [][ (prog \in {"daily", "check"}) =>
          (\A n \in DOMAIN state :
            /\ state'[n].node_alive # state[n].node_alive
                  => \E r \in BOOLEAN : ProbedNow(n, r)
            /\ \A r \in BOOLEAN :
                  (ProbedNow(n, r) /\ r = state[n].node_alive) =>
                      /\ state'[n].node_alive = state[n].node_alive
                      /\ state'[n].last_online_time = state[n].last_online_time
                      /\ state'[n].last_offline_time = state[n].last_offline_time) ]_vars

\* the transferFailed flag of a registry node
TransferFailed(n) ==
    IF prog = "daemon" THEN nodes[n].transfer_fail ELSE state[n].fail_to_request_data

\* C7: in every registry script the flag of a node goes from true to false
\* only in the step that handles the True result of a transfer of that node.
C7_FlagClearedOnlyBySuccess ==
    [][ (prog \in {"daily", "check", "daemon"}) =>
          (\A n \in (IF prog = "daemon" THEN RegNodes ELSE DOMAIN state) :
            (TransferFailed(n) /\ ~TransferFailed(n)') =>
                /\ pc \in {"beam_returned", "initial_returned", "retry_returned"}
                /\ cur = n
                /\ success
                /\ n \in SeqSet(xfers)) ]_vars

\* a catch-up pass cleared a flag that was set in the loaded state file
C7_Witness ==
    /\ prog = "check" /\ pc = "check_catchup"
    /\ \E n \in DOMAIN state :
        /\ file[n].fail_to_request_data
        /\ ~state[n].fail_to_request_data
        /\ n \in SeqSet(xfers)

\* steps one rsync_data call and its handling can take at most
CallBudget == (IF cfg.max_retries > 0 THEN cfg.max_retries ELSE 0) + 3
\* steps left in the transfer loop when the candidate at index j is next
LoopBudget(j) == (Len(sorted_nodes) + 1 - j) * CallBudget + 2
\* steps one cycle can take at most, its loop head included
CycleBudget == Cardinality(Nodes) + 1 + Cardinality(Nodes) * CallBudget + 2 + 1
\* steps left in the current cycle
StepsLeftInCycle ==
    CASE pc = "build"     -> Cardinality(todo) + 1 + Cardinality(Nodes) * CallBudget + 2
      [] pc = "transfer"  -> LoopBudget(k)
      [] pc = "rsync"     -> LoopBudget(k + 1) + (cfg.max_retries + 1 - attempt) + 2
      [] pc = "returned"  -> LoopBudget(k + 1) + 1
      [] pc = "cycle_end" -> 1
      [] OTHER            -> 0
\* an upper bound of the steps left in the run
StepsLeft ==
    CASE pc = "done"  -> 0
      [] pc = "final" -> 1
      [] OTHER        -> (MaxCyclesOf(cfg) - cycle) * CycleBudget + StepsLeftInCycle + 2

\* C8: a bounded run with N = max_cycles terminates: it never runs more than
\* N cycles, starts no cycle once remaining is empty, makes at most
\* N * max_retries copy attempts per node, and every step of the run lowers
\* a natural-numbered bound of the steps left, which is 0 only when the run
\* is done (every external invocation is one step, so it returns).
C8_BoundedRunTerminates ==
    /\ [](prog = "bounded" =>
            /\ cycle <= MaxCyclesOf(cfg)
            /\ \A n \in Nodes : attempts[n] <= MaxCyclesOf(cfg) * cfg.max_retries
            /\ StepsLeft \in Nat
            /\ StepsLeft = 0 <=> pc = "done")
    /\ [][ (prog = "bounded" /\ remaining = {}) => pc' # "build" ]_vars
    /\ [][ (prog = "bounded") => StepsLeft' < StepsLeft ]_vars

\* a run of at least two cycles used all of them and all attempts on a node
C8_Witness ==
    /\ prog = "bounded" /\ pc = "done"
    /\ cfg.has_max_cycles /\ cfg.max_cycles >= 2 /\ cfg.max_retries >= 1
    /\ cycle = cfg.max_cycles
    /\ remaining # {}
    /\ \E n \in Nodes : attempts[n] = cfg.max_cycles * cfg.max_retries

\* C9 as stated: with max_cycles 0 or absent the run does not end while a
\* node is outstanding.
C9_ZeroMeansUnbounded ==
    (prog = "bounded" /\ (~cfg.has_max_cycles \/ cfg.max_cycles = 0)
        /\ pc \in {"final", "done"}) => remaining = {}

\* C9 amended: with max_cycles 0 no cycle runs (no gate, probe or transfer)
\* and the run ends with every configured node outstanding; with max_cycles
\* absent at most 3 cycles run.
C9_ZeroMeansNoCycle ==
    prog = "bounded" =>
        /\ (cfg.has_max_cycles /\ cfg.max_cycles = 0) =>
              /\ cycle = 0
              /\ pc \in {"cycle_head", "final", "done"}
              /\ remaining = Nodes
              /\ \A n \in Nodes : attempts[n] = 0
              /\ xfers = << >> /\ stale = {}
        /\ ~cfg.has_max_cycles => cycle <= 3

\* the run with max_cycles 0 is over and every node is outstanding
C9_Witness ==
    /\ prog = "bounded" /\ pc = "done"
    /\ cfg.has_max_cycles /\ cfg.max_cycles = 0
    /\ remaining = Nodes

\* C10: a node whose pull failed on all attempts has, at the end of the pass,
\* its flag set and a last_fail_time from this pass, in memory and in the
\* saved file (daily run, catch-up pass), and is still in remaining at the
\* end of the cycle (bounded scheduler).
C10_FailedPullRecorded ==
    /\ (prog \in {"daily", "check"} /\ pc = "done") =>
          \A n \in failed :
            /\ state[n].fail_to_request_data
            /\ state[n].last_fail_time >= StartTime
            /\ file[n] = state[n]
    /\ (prog = "bounded" /\ pc = "cycle_end") => failed \subseteq remaining

\* the timestamps of a state record
TimesOf(rec) == << rec.last_online_time, rec.last_offline_time, rec.last_fail_time >>

\* C11: a node whose pull succeeded has, from then to the end of the run, its
\* flag false and the timestamps it had when the transfer was invoked, in
\* memory and in the file the daily run saves; in the bounded scheduler it
\* has left remaining and is neither examined, made a candidate nor handed to
\* rsync_data again in that run.
C11_SuccessfulPullSettled ==
    /\ [](prog = "daily" =>
            \A n \in synced \cap DOMAIN state :
                /\ ~state[n].fail_to_request_data
                /\ pc = "done" => file[n] = state[n])
    /\ [][ (prog = "daily") =>
            (\A n \in DOMAIN state :
                ((cur' = n /\ pc' = "beam_rsync") \/ n \in synced')
                    => TimesOf(state'[n]) = TimesOf(state[n])) ]_vars
    /\ [](prog = "bounded" =>
            \A n \in synced :
                /\ n \notin remaining
                /\ n \notin todo
                /\ n \notin {c.name : c \in SeqSet(candidates)}
                /\ cur # n)
    /\ [][ (prog = "bounded") =>
            (\A n \in synced : ~TransferInvoked(n) /\ attempts'[n] = attempts[n]) ]_vars

\* a second cycle ran transfers without the node synced in the first one
C11_Witness ==
    /\ prog = "bounded" /\ pc = "cycle_end" /\ cycle = 2
    /\ xfers # << >>
    /\ \E n \in synced : n \notin SeqSet(xfers) /\ attempts[n] >= 1

\* C12: when a bounded run is done, every node still in remaining has a
\* record with the failed flag set in the persisted state file.
C12_OutstandingPersisted ==
    (prog = "bounded" /\ pc = "done") =>
        \A n \in remaining :
            /\ n \in DOMAIN file
            /\ file[n].fail_to_request_data

\* C13: whenever the daemon sleeps between cycles, the state file holds an
\* entry for every node with that node's in-memory state and transfer_fail.
C13_SleepingDaemonPersisted ==
    (prog = "daemon" /\ pc = "sleep") =>
        /\ DOMAIN file = DOMAIN nodes
        /\ \A n \in DOMAIN nodes :
            /\ file[n].has_state /\ file[n].state = nodes[n].state
            /\ file[n].has_transfer_fail /\ file[n].transfer_fail = nodes[n].transfer_fail

\* the daemon sleeps after a retry cycle that probed one node and pulled
\* another, whose cleared flag is in the file
C13_Witness ==
    /\ prog = "daemon" /\ pc = "sleep"
    /\ Len(probes) = 1
    /\ \E n \in synced : n \in SeqSet(xfers) /\ ~file[n].transfer_fail

\* C14: at every moment of a registry script a reader of the state file finds
\* a complete snapshot: the file is not empty and has an entry for every
\* node of the in-memory registry.
C14_ReaderSeesCompleteSnapshot ==
    prog \in {"daily", "check", "daemon"} =>
        /\ file # EmptyFile
        /\ DOMAIN file = (IF prog = "daemon" THEN DOMAIN nodes ELSE DOMAIN state)

\* the fields of a state record
RecordFields ==
    {"node_alive", "fail_to_request_data", "last_online_time", "last_offline_time",
     "last_fail_time"}

\* C15: when the health check and the daily run overlapped and both have
\* finished, every field that exactly one of them changed (compared with
\* what that script loaded) has the changed value in the state file.
C15_NoLostUpdate ==
    (prog = "overlap" /\ pc = "done" /\ pc2 = "d_done") =>
        \A n \in RegNodes, f \in RecordFields :
            LET byCheck == state[n][f] # file0[n][f]
                byDaily == state2[n][f] # base2[n][f]
            IN  /\ (byCheck /\ ~byDaily) => file[n][f] = state[n][f]
                /\ (byDaily /\ ~byCheck) => file[n][f] = state2[n][f]

\* C16: in every cycle of the bounded scheduler, a node that was outstanding
\* at the start of the cycle and whose heartbeat was fresh and whose probe
\* answered at candidate building is a candidate of that cycle, stands in the
\* sorted list, and by the end of the cycle rsync_data was called for it; with
\* max_retries >= 1 that call made a copy attempt (it failed or synced the
\* node). Skips in earlier cycles leave nothing behind that could prevent it.
C16_FreshNodeIsTransferred ==
    prog = "bounded" =>
        \A n \in ready :
            /\ pc = "build" => n \in {c.name : c \in SeqSet(candidates)}
            /\ pc \in {"transfer", "rsync", "returned"} => n \in SeqSet(sorted_nodes)
            /\ pc = "cycle_end" =>
                  /\ n \in SeqSet(xfers)
                  /\ cfg.max_retries >= 1 => (n \in failed \/ n \in synced)

\* a node that got no attempt in cycle 1 is ready in cycle 2 and receives
\* its first attempt there
C16_Witness ==
    /\ prog = "bounded" /\ pc = "cycle_end" /\ cycle = 2
    /\ cfg.max_retries = 1
    /\ \E n \in ready :
        /\ n \in SeqSet(xfers)
        /\ attempts[n] = 1

\* the nodes probed in this pass, and those whose probe did not answer
ProbedNodes == {probes[i].name : i \in 1..Len(probes)}
UnreachableNodes == {probes[i].name : i \in {j \in 1..Len(probes) : ~probes[j].ok}}

\* C17: once the probing step of a retry cycle of the daemon is over, every
\* node has been probed in that cycle, and every node whose probe did not
\* answer is recorded dead while the transfers of the cycle run.
C17_EveryNodeProbedEachCycle ==
    (prog = "daemon" /\ pc \in {"ping_dead_save", "retry", "retry_returned", "retry_save"}) =>
        /\ ProbedNodes = RegNodes
        /\ \A n \in UnreachableNodes : nodes[n].state = "dead"

\* node n was not reachable in the initial pass, no transfer has been invoked
\* for it yet, its flag is false, and a retry cycle has found it reachable
OwesData(n) ==
    /\ prog = "daemon" /\ pc = "retry"
    /\ nodes[n].state = "alive"
    /\ ~nodes[n].transfer_fail
    /\ n \notin pulled

\* C18: in the daemon, a node that was unreachable in the initial pass with
\* its flag false and that a later cycle finds reachable is eventually
\* handed to rsync_shipped_data in some retry cycle (unless the daemon has
\* stopped on an error before).
C18_OwingNodeEventuallyPulled ==
    \A n \in RegNodes : OwesData(n) ~> (n \in pulled \/ pc = "error")

\* C19: in one cycle of the bounded scheduler rsync_data is never called twice
\* for the same node, and when the cycle ends it was called exactly once for
\* every node that passed the gate and the probe, whatever the results of the
\* calls before it in the sorted order.
C19_OneTransferPerCandidate ==
    prog = "bounded" =>
        /\ Cardinality(SeqSet(xfers)) = Len(xfers)
        /\ SeqSet(xfers) \subseteq ready
        /\ pc = "cycle_end" =>
              /\ SeqSet(xfers) = ready
              /\ Len(xfers) = Cardinality(ready)

\* a cycle with three candidates: the first pull failed, the other two were
\* still attempted
C19_Witness ==
    /\ prog = "bounded" /\ pc = "cycle_end"
    /\ Len(xfers) = 3
    /\ xfers[1] \in failed
    /\ xfers[3] \in synced

\* C20: when a registry script starts (nothing probed yet), every configured
\* node has a record: the persisted one where the file has one, fresh
\* defaults otherwise (the daemon: defaults for the keys an entry lacks), and
\* the run never stops for want of a record.
C20_EveryConfiguredNodeHasRecord ==
    /\ prog \in {"daily", "check"} => pc # "error"
    /\ (prog \in {"daily", "check"} /\ probes = << >>) =>
          \A n \in RegNodes :
            /\ n \in DOMAIN state
            /\ n \in DOMAIN file => state[n] = file[n]
            /\ n \notin DOMAIN file => state[n] = NoState[n]
    /\ (prog = "daemon" /\ pc = "ping_nodes" /\ probes = << >>) =>
          \A n \in DOMAIN file :
            /\ n \in DOMAIN nodes
            /\ nodes[n].transfer_fail = (file[n].has_transfer_fail /\ file[n].transfer_fail)
            /\ nodes[n].state = (IF file[n].has_state THEN file[n].state ELSE "unknown")

\* C21: a node whose probe reached it but gave no parsable average is, in
\* the bounded scheduler, not a candidate and not handed to rsync_data in that
\* cycle and stays in remaining; in the daemon's ping_nodes it is marked dead
\* and the daemon goes on.
C21_NoLatencyMeansUnreachable ==
    /\ prog = "bounded" =>
          \A n \in noavg :
            /\ n \in remaining
            /\ n \notin {c.name : c \in SeqSet(candidates)}
            /\ n \notin SeqSet(xfers)
            /\ cur # n
    /\ (prog = "daemon" /\ noavg # {}) => pc # "error"
    /\ (prog = "daemon" /\ pc \in {"ping_nodes", "ping_nodes_save", "initial",
                                     "initial_returned", "initial_save"}) =>
          \A n \in noavg : nodes[n].state = "dead"

\* the registry a script would load from the state file, and the one it has
\* in memory
PersistedRegistry == IF prog = "daemon" THEN LoadNodes(file) ELSE LoadJson(file)
MemoryRegistry == IF prog = "daemon" THEN nodes ELSE state

\* C22: when a registry script has exited on a stop signal, the state file
\* holds the flag, health and timestamp values of the in-memory registry,
\* that is every change decided before the stop.
C22_StopPersistsDecisions ==
    (prog \in {"daily", "check", "daemon"} /\ pc = "stopped") =>
        PersistedRegistry = MemoryRegistry

\* C23: when every attempt of one rsync_data call of a BEAM script has failed
\* (max_retries >= 1), exactly max_retries - 1 sleeps were made and the last
\* event of the call is the failed attempt, not a sleep.
C23_BeamNoSleepAfterLastAttempt ==
    (prog \in {"daily", "check"} /\ pc = "beam_returned" /\ ~success
        /\ cfg.max_retries >= 1) =>
        /\ Len(AttemptsOf(events)) = cfg.max_retries
        /\ Len(SleepsOf(events)) = cfg.max_retries - 1
        /\ events[Len(events)].kind = "attempt"

\* C24: in a bounded run remaining starts as the set of configured nodes, is
\* always a subset of it and never grows; a node leaves it only in the step
\* that handles the True result of that node's transfer, whose last copy
\* attempt succeeded; a node outside remaining is not examined by the gate
\* and the probe, not made a candidate and not handed to rsync_data.
C24_RemainingOnlyShrinks ==
    /\ [](prog = "bounded" =>
            /\ remaining \subseteq DOMAIN cfg.nodes
            /\ (cycle = 0 /\ pc = "cycle_head") => remaining = DOMAIN cfg.nodes
            /\ todo \subseteq remaining
            /\ {c.name : c \in SeqSet(candidates)} \subseteq remaining
            /\ (pc = "rsync" => cur \in remaining))
    /\ [][ (prog = "bounded") =>
            /\ remaining' \subseteq remaining
            /\ \A n \in remaining \ remaining' :
                  /\ pc = "returned" /\ cur = n /\ success
                  /\ events # << >> /\ events[Len(events)].ok
            /\ \A n \in DOMAIN cfg.nodes \ remaining :
                  /\ ~TransferInvoked(n)
                  /\ n \notin todo'
                  /\ n \in stale' => n \in stale
                  /\ n \in ready' => n \in ready
                  /\ n \in noavg' => n \in noavg ]_vars

\* a run of two cycles ended: two nodes left remaining, one in each cycle,
\* and the third is still in it
C24_Witness ==
    /\ prog = "bounded" /\ pc = "done" /\ cycle = 2
    /\ Cardinality(remaining) = 1
    /\ Cardinality(synced) = 2
    /\ Len(xfers) = 1 /\ xfers[1] \in synced

====
